---- MODULE Spec2Model ----
(***************************************************************************)
(* Patch datasets of tiatoolbox/models/dataset/classification.py:          *)
(* the base class __ABC_Dataset (set_preproc_func, __len__, __getitem__,   *)
(* load_img), PatchDataset.__init__ and KatherPatchDataset.__init__.       *)
(*                                                                         *)
(* A sample of img_list is a record                                        *)
(*   [t, dir, file, suffix, shape, px]                                     *)
(* t = "path"    : a str / pathlib.Path naming file `file` of directory    *)
(*                 `dir` with extension `suffix`;                          *)
(* t = "ndarray" : an in-memory array of shape `shape` and content `px`;   *)
(* t = "other"   : any other Python value (an int, None, ...).             *)
(* A decoded image is a record [shape, px].                                *)
(***************************************************************************)
EXTENDS Integers, Sequences, FiniteSets, TLC

VARIABLES
    fs,                 \* the filesystem: [root, home, dirs, files, order]
    args,               \* the constructor's arguments
    phase,              \* "new" | "ok" (object constructed) | "failed" (no object)
    err,                \* the exception the constructor raised: [type, at]
    decoded,            \* number of files load_img decoded during construction
    img_list,           \* self.img_list
    label_list,         \* self.label_list
    data_is_npy_alike,  \* self.data_is_npy_alike
    return_labels,      \* self.return_labels
    preproc_func,       \* self.preproc_func
    classes,            \* self.classes (KatherPatchDataset only)
    res,                \* what the most recent method call returned or raised
    last_func           \* the argument of the most recent set_preproc_func call

vars == <<fs, args, phase, err, decoded, img_list, label_list,
          data_is_npy_alike, return_labels, preproc_func, classes, res,
          last_func>>

\* Longest img_list / label_list handed to PatchDataset.
MaxLen == 2
\* Most *.tif files in one category directory of the Kather layout.
MaxFiles == 2

---------------------------------------------------------------------------
(* Values *)

\* np.nan, the label synthesised when label_list is None.
NaN == -1

NoError == [type |-> "none", at |-> 0]
ValueError(line) == [type |-> "ValueError", at |-> line]

PathElem(d, f, sfx) ==
    [t |-> "path", dir |-> d, file |-> f, suffix |-> sfx, shape |-> <<>>, px |-> 0]
ArrElem(shp, p) ==
    [t |-> "ndarray", dir |-> 0, file |-> 0, suffix |-> "", shape |-> shp, px |-> p]
OtherElem ==
    [t |-> "other", dir |-> 0, file |-> 0, suffix |-> "", shape |-> <<>>, px |-> 0]

FileRec(d, f, sfx, shp, p) ==
    [dir |-> d, file |-> f, suffix |-> sfx, shape |-> shp, px |-> p]

Img(shp, p) == [shape |-> shp, px |-> p]

RECURSIVE SeqsUpTo(_, _)
SeqsUpTo(S, n) ==
    IF n = 0 THEN {<<>>}
    ELSE LET prev == SeqsUpTo(S, n - 1)
         IN  prev \cup {Append(s, x) : s \in {q \in prev : Len(q) = n - 1}, x \in S}

Range(s) == {s[i] : i \in DOMAIN s}

---------------------------------------------------------------------------
(* __ABC_Dataset *)

ImageSuffixes == {".jpg", ".jpeg", ".tif", ".tiff", ".png"}

\* os.path.exists(v) for a path sample v.
PathExists(files, v) ==
    \E f \in files : f.dir = v.dir /\ f.file = v.file /\ f.suffix = v.suffix

FileOf(files, v) ==
    CHOOSE f \in files : f.dir = v.dir /\ f.file = v.file /\ f.suffix = v.suffix

\* What np.load / imread give for path v: the stored array, the decoded
\* H x W x C image, or the exception `e` they raise when the file is absent.
ReadFile(files, v, e) ==
    IF PathExists(files, v)
    THEN [ok |-> TRUE, err |-> NoError,
          img |-> Img(FileOf(files, v).shape, FileOf(files, v).px)]
    ELSE [ok |-> FALSE, err |-> e, img |-> Img(<<>>, 0)]

\* load_img(path): [ok, err, img].  ".npy" goes to np.load (line 110), the
\* image extensions go to imread (line 112), any other extension is a
\* ValueError (line 114).  np.load raises FileNotFoundError for a file that
\* is not there; imread raises its own error, named "ImreadError" here.
load_img(files, v) ==
    IF v.suffix = ".npy"
    THEN ReadFile(files, v, [type |-> "FileNotFoundError", at |-> 110])
    ELSE IF v.suffix \in ImageSuffixes
    THEN ReadFile(files, v, [type |-> "ImreadError", at |-> 112])
    ELSE [ok |-> FALSE, err |-> ValueError(114), img |-> Img(<<>>, 0)]

\* The callables a caller may hand over as preproc_func; "None" is None.
PreprocArgs == {"None", "f", "g"}

\* func(img) for the callables of the model; "identity" is `lambda x: x`.
Apply(func, img) ==
    CASE func = "identity" -> img
      [] func = "f" -> [img EXCEPT !.px = @ + 10]
      [] func = "g" -> [img EXCEPT !.px = 2 * @]

\* set_preproc_func: the value stored in self.preproc_func.
SetPreprocFuncAlwaysIdentity(func) == "identity"
SetPreprocFunc(func) == IF func # "None" THEN func ELSE "identity"

\* seq[idx] of a Python list / tuple / ndarray of length n: the 1-based
\* position read, 0 when IndexError is raised.
PyIndexClamped(n, idx) ==
    IF n = 0 THEN 0
    ELSE IF idx >= n THEN n
    ELSE IF idx < -n THEN 1
    ELSE IF idx < 0 THEN idx + n + 1 ELSE idx + 1
PyIndex(n, idx) ==
    IF idx >= 0 /\ idx < n THEN idx + 1
    ELSE IF idx < 0 /\ idx >= -n THEN idx + n + 1
    ELSE 0

\* __len__
DatasetLen == Len(img_list)

Raised(kind, idx) == [kind |-> kind, idx |-> idx, patch |-> <<>>, label |-> <<>>]

\* __getitem__(idx)
GetItem(idx) ==
    LET pos == PyIndex(Len(img_list), idx) IN
    IF pos = 0 THEN Raised("IndexError", idx)
    ELSE
      LET elem   == img_list[pos]
          loaded == IF ~data_is_npy_alike
                    THEN load_img(fs.files, elem)
                    ELSE [ok |-> TRUE, err |-> NoError,
                          img |-> Img(elem.shape, elem.px)]
      IN
      IF ~loaded.ok THEN Raised(loaded.err.type, idx)
      ELSE
        LET patch == Apply(preproc_func, loaded.img) IN
        IF return_labels
        THEN LET lpos == PyIndex(Len(label_list), idx) IN
             IF lpos = 0 THEN Raised("IndexError", idx)
             ELSE [kind |-> "pair", idx |-> idx, patch |-> <<patch>>,
                   label |-> <<label_list[lpos]>>]
        ELSE [kind |-> "patch", idx |-> idx, patch |-> <<patch>>, label |-> <<>>]

---------------------------------------------------------------------------
(* PatchDataset.__init__ *)

IsAllPathList(items) == \A i \in DOMAIN items : items[i].t = "path"
IsAllNpyList(items) == \A i \in DOMAIN items : items[i].t = "ndarray"

\* not any(not os.path.exists(v) for v in img_list)
AllPathsExistUnchecked(files, items) == TRUE
AllPathsExist(files, items) == \A i \in DOMAIN items : PathExists(files, items[i])

\* The first position at which load_img raises, 0 when every load succeeds.
FirstLoadFailure(files, items) ==
    LET bad == {i \in DOMAIN items : ~load_img(files, items[i]).ok}
    IN  IF bad = {} THEN 0 ELSE CHOOSE i \in bad : \A j \in bad : i <= j

SetMax(S) == CHOOSE x \in S : \A y \in S : y <= x

\* np.max(shape_list, axis=0) of a non-empty list of 3-tuples.
MaxShapeFirst(shape_list) == shape_list[1]
MaxShape(shape_list) ==
    [k \in 1..3 |-> SetMax({shape_list[i][k] : i \in DOMAIN shape_list})]

RECURSIVE SumSeq(_)
SumSeq(s) == IF s = <<>> THEN 0 ELSE s[1] + SumSeq(Tail(s))

\* (shape_list - max_shape[None]).sum()
ShapeDiffSum(shape_list, max_shape) ==
    SumSeq([i \in DOMAIN shape_list |->
              SumSeq([k \in 1..3 |-> shape_list[i][k] - max_shape[k]])])

Built(img, lab, npy, n) ==
    [err |-> NoError, decoded |-> n, img_list |-> img, label_list |-> lab,
     npy |-> npy]
Aborted(e, n) ==
    [err |-> e, decoded |-> n, img_list |-> <<>>, label_list |-> <<>>,
     npy |-> FALSE]

\* label_list as stored: the caller's, or one np.nan per sample.
StoredLabels(labels, n) ==
    IF ~labels.given THEN [i \in 1..n |-> NaN] ELSE labels.vals

\* The checks on shape_list shared by both list branches, then the stores.
CheckShapes(items, shape_list, labels, npy, n) ==
    IF \E i \in DOMAIN shape_list : Len(shape_list[i]) # 3
    THEN Aborted(ValueError(218), n)
    ELSE IF shape_list = <<>>
    THEN Aborted(ValueError(220), n)
    ELSE IF ShapeDiffSum(shape_list, MaxShape(shape_list)) # 0
    THEN Aborted(ValueError(223), n)
    ELSE Built(items, StoredLabels(labels, Len(items)), npy, n)

\* The constructor's outcome for img_list = img and label_list = labels.
PatchInit(files, img, labels) ==
    IF img.kind = "list"
    THEN
      IF ~(IsAllPathList(img.items) \/ IsAllNpyList(img.items))
      THEN Aborted(ValueError(196), 0)
      ELSE IF IsAllPathList(img.items)
      THEN
        IF ~AllPathsExist(files, img.items)
        THEN Aborted(ValueError(206), 0)
        ELSE
          LET k == FirstLoadFailure(files, img.items) IN
          IF k # 0
          THEN Aborted(load_img(files, img.items[k]).err, k - 1)
          ELSE CheckShapes(img.items,
                           [i \in DOMAIN img.items |->
                              load_img(files, img.items[i]).img.shape],
                           labels, FALSE, Len(img.items))
      ELSE CheckShapes(img.items,
                       [i \in DOMAIN img.items |-> img.items[i].shape],
                       labels, TRUE, 0)
    ELSE IF img.kind = "ndarray"
    THEN
      IF ~img.numeric THEN Aborted(ValueError(230), 0)
      ELSE IF img.ndim # 4 THEN Aborted(ValueError(233), 0)
      ELSE Built(img.items, StoredLabels(labels, Len(img.items)), TRUE, 0)
    ELSE Aborted(ValueError(241), 0)

---------------------------------------------------------------------------
(* The environment and the arguments of the PatchDataset runs *)

PatchFiles ==
    { FileRec(0, 1, ".png", <<2, 2, 3>>, 1),
      FileRec(0, 2, ".npy", <<2, 2, 3>>, 2),
      FileRec(0, 3, ".tif", <<2, 3, 3>>, 3),
      FileRec(0, 4, ".npy", <<2, 2>>, 4),
      FileRec(0, 5, ".txt", <<>>, 5) }

PatchPaths ==
    {PathElem(f.dir, f.file, f.suffix) : f \in PatchFiles}
        \cup {PathElem(0, 6, ".png")}

PatchArrays ==
    { ArrElem(<<1, 2, 1>>, 1), ArrElem(<<2, 1, 1>>, 2),
      ArrElem(<<1, 2, 1>>, 3), ArrElem(<<2, 2>>, 4) }

\* The slices arr[0], ..., arr[n-1] of an ndarray of ndim dimensions.
NdSlices(ndim, n) ==
    [i \in 1..n |-> ArrElem(IF ndim = 4 THEN <<2, 2, 3>> ELSE <<2, 3>>, i)]

ImgInputs ==
    { [kind |-> "list", items |-> s, numeric |-> TRUE, ndim |-> 1] :
        s \in SeqsUpTo(PatchPaths \cup PatchArrays \cup {OtherElem}, MaxLen) }
    \cup
    { [kind |-> "ndarray", items |-> NdSlices(d, n), numeric |-> b, ndim |-> d] :
        d \in {3, 4}, n \in 0..MaxLen, b \in BOOLEAN }
    \cup
    { [kind |-> "other", items |-> <<>>, numeric |-> FALSE, ndim |-> 0] }

LabelInputs ==
    { [given |-> FALSE, vals |-> <<>>] }
    \cup { [given |-> TRUE, vals |-> s] : s \in SeqsUpTo({0, 1}, MaxLen) }

IdxRange == (0 - MaxLen - 1)..(MaxLen + 1)

NoResult == Raised("none", 0)

Init ==
    /\ fs = [root |-> TRUE, home |-> TRUE, dirs |-> {}, files |-> PatchFiles,
             order |-> <<>>]
    /\ args \in { [cls |-> "PatchDataset", img |-> i, labels |-> l,
                   return_labels |-> r, preproc_func |-> p] :
                  i \in ImgInputs, l \in LabelInputs, r \in BOOLEAN,
                  p \in PreprocArgs }
    /\ phase = "new"
    /\ err = NoError
    /\ decoded = 0
    /\ img_list = <<>>
    /\ label_list = <<>>
    /\ data_is_npy_alike = FALSE
    /\ return_labels = FALSE
    /\ preproc_func = "identity"
    /\ classes = <<>>
    /\ res = NoResult
    /\ last_func = "None"

\* PatchDataset(img_list, label_list, return_labels, preproc_func)
PatchDatasetInit ==
    /\ phase = "new"
    /\ args.cls = "PatchDataset"
    /\ LET out == PatchInit(fs.files, args.img, args.labels) IN
       /\ err' = out.err
       /\ decoded' = out.decoded
       /\ last_func' = args.preproc_func
       /\ IF out.err = NoError
          THEN /\ phase' = "ok"
               /\ img_list' = out.img_list
               /\ label_list' = out.label_list
               /\ data_is_npy_alike' = out.npy
               /\ return_labels' = args.return_labels
               /\ preproc_func' = SetPreprocFunc(args.preproc_func)
          ELSE /\ phase' = "failed"
               /\ UNCHANGED <<img_list, label_list, data_is_npy_alike,
                              return_labels, preproc_func>>
    /\ UNCHANGED <<fs, args, classes, res>>

\* dataset[idx]
Get ==
    /\ phase = "ok"
    /\ \E idx \in IdxRange : res' = GetItem(idx)
    /\ UNCHANGED <<fs, args, phase, err, decoded, img_list, label_list,
                   data_is_npy_alike, return_labels, preproc_func, classes,
                   last_func>>

\* dataset.set_preproc_func(func); the call returns None.
SetPreproc ==
    /\ phase = "ok"
    /\ \E func \in PreprocArgs :
         /\ preproc_func' = SetPreprocFunc(func)
         /\ last_func' = func
    /\ res' = Raised("None", 0)
    /\ UNCHANGED <<fs, args, phase, err, decoded, img_list, label_list,
                   data_is_npy_alike, return_labels, classes>>

Next == PatchDatasetInit \/ Get \/ SetPreproc

Spec == Init /\ [][Next]_vars

---------------------------------------------------------------------------
(* KatherPatchDataset.__init__ *)

label_code_list ==
    << "01_TUMOR", "02_STROMA", "03_COMPLEX", "04_LYMPHO",
       "05_DEBRIS", "06_MUCOSA", "07_ADIPOSE", "08_EMPTY" >>

Categories == DOMAIN label_code_list

\* grab_files_from_dir("<save_dir_path>/<label_code_list[c]>/", file_types):
\* the files of that directory matching the pattern, in the order the
\* directory enumeration yields them; nothing when the directory is absent.
GrabFilesFromDir(fsys, c, suffix) ==
    IF c \notin fsys.dirs THEN <<>>
    ELSE LET hit(k) == \E f \in fsys.files :
                          f.dir = c /\ f.file = k /\ f.suffix = suffix
             found  == SelectSeq(fsys.order, hit)
         IN  [i \in DOMAIN found |-> PathElem(c, found[i], suffix)]

\* [v, label_id] < [w, label_id'] as Python compares two lists: by path
\* first, by label on equal paths.
PairLess(a, b) ==
    \/ a[1].dir < b[1].dir
    \/ a[1].dir = b[1].dir /\ a[1].file < b[1].file
    \/ a[1].dir = b[1].dir /\ a[1].file = b[1].file /\ a[2] < b[2]

RECURSIVE InsertSorted(_, _)
InsertSorted(x, s) ==
    IF s = <<>> THEN <<x>>
    ELSE IF PairLess(x, s[1]) THEN <<x>> \o s
    ELSE <<s[1]>> \o InsertSorted(x, Tail(s))

RECURSIVE InsertionSort(_)
InsertionSort(s) ==
    IF s = <<>> THEN <<>>
    ELSE InsertSorted(s[Len(s)], InsertionSort(SubSeq(s, 1, Len(s) - 1)))

\* path_list.sort()
SortPathListUnsorted(path_list) == path_list
SortPathList(path_list) == InsertionSort(path_list)

\* One pass of the loop body for category c (label_id = c - 1).
CategoryPathList(fsys, c) ==
    LET grabbed == GrabFilesFromDir(fsys, c, ".tif")
    IN  SortPathList([i \in DOMAIN grabbed |-> <<grabbed[i], c - 1>>])

\* all_path_list after the loop has run over label_code_list[1..c].
RECURSIVE AllPathList(_, _)
AllPathList(fsys, c) ==
    IF c = 0 THEN <<>>
    ELSE AllPathList(fsys, c - 1) \o CategoryPathList(fsys, c)

\* Whether lines 297-298 run: save_dir_path is None and the default
\* directory <TIATOOLBOX_HOME>/dataset/ is not there.
Downloads(save_dir_path, fsys) == save_dir_path = "None" /\ ~fsys.home

\* The filesystem the loop of lines 307-313 reads.  `dl` is what
\* download_data and unzip_data do when they run: [outcome, fs], fs being the
\* filesystem once the archive is extracted.
FsAfterDownload(save_dir_path, fsys, dl) ==
    IF ~Downloads(save_dir_path, fsys) \/ dl.outcome = "download_error"
    THEN fsys
    ELSE IF dl.outcome = "unzip_error" THEN [fsys EXCEPT !.home = TRUE]
    ELSE dl.fs

\* The constructor's outcome.  fsys.root says whether the directory holding
\* the category directories exists: save_dir_path when one is given (checked
\* at line 302), <TIATOOLBOX_HOME>/dataset/Kather_texture_2016_image_tiles_5000/
\* when it is None (not checked).
KatherInit(save_dir_path, fsys, dl) ==
    IF Downloads(save_dir_path, fsys) /\ dl.outcome = "download_error"
    THEN Aborted([type |-> "DownloadError", at |-> 297], 0)
    ELSE IF Downloads(save_dir_path, fsys) /\ dl.outcome = "unzip_error"
    THEN Aborted([type |-> "UnzipError", at |-> 298], 0)
    ELSE IF save_dir_path # "None" /\ ~fsys.root
    THEN Aborted(ValueError(303), 0)
    ELSE LET all_path_list ==
                 AllPathList(FsAfterDownload(save_dir_path, fsys, dl),
                             Len(label_code_list))
         IN
         IF all_path_list = <<>>
         THEN Aborted(ValueError(314), 0)
         ELSE Built([i \in DOMAIN all_path_list |-> all_path_list[i][1]],
                    [i \in DOMAIN all_path_list |-> all_path_list[i][2]],
                    FALSE, 0)

---------------------------------------------------------------------------
(* The environment and the arguments of the KatherPatchDataset runs *)

\* The orders in which a directory enumeration may yield files 1..n.
Orders ==
    UNION { { s \in [1..n -> 1..n] : \A i, j \in 1..n : s[i] = s[j] => i = j } :
            n \in 1..MaxFiles }

\* The category directories that do not exist, for the layouts of the model:
\* none, all of those without files, or the odd-numbered ones without files.
MissingChoices == { {}, Categories, {c \in Categories : c % 2 = 1} }

\* The files of a layout whose categories in `populated` hold files: the
\* *.tif images the enumeration order names, and one file of another type.
KatherFiles(populated, order) ==
    UNION { { FileRec(c, k, ".tif", <<2, 2, 3>>, 10 * c + k) : k \in Range(order) }
              \cup { FileRec(c, 0, ".png", <<2, 2, 3>>, 10 * c) } :
            c \in populated }

\* Nothing on disk: neither <TIATOOLBOX_HOME>/dataset/ nor a dataset directory.
EmptyFS ==
    [root |-> FALSE, home |-> FALSE, dirs |-> {}, files |-> {}, order |-> <<1>>]

\* The layouts in which <TIATOOLBOX_HOME>/dataset/ exists.
KatherFS ==
    { [root |-> TRUE, home |-> TRUE, dirs |-> Categories \ (m \ pop),
       files |-> KatherFiles(pop, o), order |-> o] :
      pop \in SUBSET Categories, m \in MissingChoices, o \in Orders }
    \cup { [EmptyFS EXCEPT !.home = TRUE] }

\* download_data and unzip_data are not called.
NoDownload == [outcome |-> "not_called", fs |-> EmptyFS]

\* What download_data and unzip_data may do: either raises, or the archive
\* is extracted, every category directory holding its images.
DownloadResults ==
    { [outcome |-> "download_error", fs |-> EmptyFS],
      [outcome |-> "unzip_error", fs |-> EmptyFS] }
    \cup { [outcome |-> "ok",
            fs |-> [root |-> TRUE, home |-> TRUE, dirs |-> Categories,
                    files |-> KatherFiles(Categories, o), order |-> o]] :
          o \in Orders }

InitKather ==
    /\ args \in { [cls |-> "KatherPatchDataset", save_dir_path |-> d,
                   img |-> [kind |-> "other", items |-> <<>>,
                            numeric |-> FALSE, ndim |-> 0],
                   labels |-> [given |-> FALSE, vals |-> <<>>],
                   return_labels |-> FALSE, preproc_func |-> "None"] :
                  d \in {"given", "None"} }
    /\ fs \in IF args.save_dir_path = "None"
              THEN KatherFS \cup {EmptyFS} ELSE KatherFS
    /\ phase = "new"
    /\ err = NoError
    /\ decoded = 0
    /\ img_list = <<>>
    /\ label_list = <<>>
    /\ data_is_npy_alike = FALSE
    /\ return_labels = FALSE
    /\ preproc_func = "identity"
    /\ classes = <<>>
    /\ res = NoResult
    /\ last_func = "None"

\* KatherPatchDataset(save_dir_path, return_labels, preproc_func)
KatherPatchDatasetInit ==
    /\ phase = "new"
    /\ args.cls = "KatherPatchDataset"
    /\ \E dl \in IF Downloads(args.save_dir_path, fs)
                THEN DownloadResults ELSE {NoDownload} :
         LET out == KatherInit(args.save_dir_path, fs, dl) IN
         /\ fs' = FsAfterDownload(args.save_dir_path, fs, dl)
         /\ err' = out.err
         /\ decoded' = out.decoded
         /\ last_func' = args.preproc_func
         /\ IF out.err = NoError
            THEN /\ phase' = "ok"
                 /\ img_list' = out.img_list
                 /\ label_list' = out.label_list
                 /\ data_is_npy_alike' = out.npy
                 /\ return_labels' = args.return_labels
                 /\ preproc_func' = SetPreprocFunc(args.preproc_func)
                 /\ classes' = label_code_list
            ELSE /\ phase' = "failed"
                 /\ UNCHANGED <<img_list, label_list, data_is_npy_alike,
                                return_labels, preproc_func, classes>>
    /\ UNCHANGED <<args, res>>

NextKather == KatherPatchDatasetInit \/ Get \/ SetPreproc

SpecKather == InitKather /\ [][NextKather]_vars

---------------------------------------------------------------------------
(* Properties *)

ReturnedSample == res.kind \in {"patch", "pair"}
IsGetResult == res.kind \notin {"none", "None"}
InRange0(idx) == idx >= 0 /\ idx < DatasetLen
InRangePy(idx) == idx >= 0 - DatasetLen /\ idx < DatasetLen

IsPatchRun == args.cls = "PatchDataset" /\ phase # "new"
ListInput == IsPatchRun /\ args.img.kind = "list"
InItems == args.img.items

\* Every element is a path to an existing file of a recognised extension.
LoadablePathList ==
    /\ IsAllPathList(InItems)
    /\ \A i \in DOMAIN InItems :
         /\ PathExists(fs.files, InItems[i])
         /\ InItems[i].suffix \in ImageSuffixes \cup {".npy"}

\* The shape of every sample of a loadable path list or of a list of arrays.
InShapes ==
    [i \in DOMAIN InItems |->
       IF InItems[i].t = "path" THEN FileOf(fs.files, InItems[i]).shape
       ELSE InItems[i].shape]

All3D == \A i \in DOMAIN InItems : Len(InShapes[i]) = 3
Uniform == \A i, j \in DOMAIN InItems : InShapes[i] = InShapes[j]

\* The sample at 0-based position i of the dataset, decoded when it is a path.
RawSample(i) ==
    LET e == img_list[i + 1]
    IN  IF data_is_npy_alike THEN Img(e.shape, e.px)
        ELSE Img(FileOf(fs.files, e).shape, FileOf(fs.files, e).px)

\* C1: for every constructed dataset, after any calls, the number of stored
\* samples equals the number of stored labels.
C1_LenSamplesEqLenLabels ==
    phase = "ok" => Len(img_list) = Len(label_list)

\* C2 (as claimed): get(index) returns a sample only for index in
\* [0, length()), and raises IndexError for every other index, the negative
\* ones included.
C2_IndexErrorOutside0Len ==
    IsGetResult =>
        /\ ReturnedSample => InRange0(res.idx)
        /\ ~InRange0(res.idx) => res.kind = "IndexError"

\* C2 (amended): get(index) returns a sample only for index in
\* [-length(), length()), and raises IndexError for every index outside it.
C2_IndexErrorOutsidePyRange ==
    IsGetResult =>
        /\ ReturnedSample => InRangePy(res.idx)
        /\ ~InRangePy(res.idx) => res.kind = "IndexError"

C2_Witness ==
    /\ IsGetResult /\ DatasetLen > 0
    /\ res.idx < 0 - DatasetLen
    /\ res.kind = "IndexError"

\* C3: on a constructed PatchDataset get(i) succeeds for every i in
\* [0, length()), with or without return_labels, whatever label_list was.
C3_GetInRangeSucceeds ==
    (args.cls = "PatchDataset" /\ IsGetResult /\ InRange0(res.idx))
        => ReturnedSample

\* C4: a list of arrays or of existing image paths whose samples are all
\* 3-dimensional and not all of one shape is refused with the ValueError of
\* the shape check; a non-empty one whose shapes are all equal passes.
C4_ShapeCheckRejectsExactlyNonUniform ==
    (ListInput /\ (LoadablePathList \/ IsAllNpyList(InItems)) /\ All3D) =>
        /\ ~Uniform => phase = "failed" /\ err = ValueError(223)
        /\ (Uniform /\ InItems # <<>>) => phase = "ok" /\ img_list = InItems

C4_Witness ==
    /\ ListInput /\ IsAllNpyList(InItems) /\ Len(InItems) = 2
    /\ InShapes[1] = <<1, 2, 1>> /\ InShapes[2] = <<2, 1, 1>>
    /\ phase = "failed" /\ err = ValueError(223)

\* C5: every list of existing paths with recognised extensions, 3-dimensional
\* and of one shape, of any length including zero, constructs a dataset in
\* path-referenced mode whose length is the length of the list.
C5_ValidPathListConstructs ==
    (ListInput /\ LoadablePathList /\ All3D /\ Uniform) =>
        /\ phase = "ok"
        /\ ~data_is_npy_alike
        /\ DatasetLen = Len(InItems)

TifsOf(c) == {f \in fs.files : f.dir = c /\ f.suffix = ".tif"}
EntriesOf(c) == {i \in DOMAIN img_list : img_list[i].dir = c}

\* C6: over an existing directory, whichever category directories are missing
\* or empty (all eight included), construction raises nothing and every
\* category contributes exactly its matching files.
C6_MissingOrEmptyRaisesNothing ==
    (args.cls = "KatherPatchDataset" /\ phase # "new" /\ fs.root) =>
        /\ phase = "ok"
        /\ \A c \in Categories :
             Cardinality(EntriesOf(c)) = Cardinality(TifsOf(c))

\* C7: in a constructed KatherPatchDataset label_list[i] is the position in
\* label_code_list of the directory of img_list[i], labels never decrease,
\* paths ascend within a category, and the paths are exactly the *.tif files.
C7_KatherLabelsAndOrder ==
    (args.cls = "KatherPatchDataset" /\ phase = "ok") =>
        /\ Len(label_list) = Len(img_list)
        /\ \A i \in DOMAIN img_list :
             /\ label_list[i] \in 0..7
             /\ label_list[i] + 1 = img_list[i].dir
        /\ \A i, j \in DOMAIN img_list :
             i < j => /\ label_list[i] <= label_list[j]
                      /\ img_list[i].dir = img_list[j].dir
                            => img_list[i].file < img_list[j].file
        /\ Range(img_list) =
             {PathElem(f.dir, f.file, f.suffix) :
                f \in UNION {TifsOf(c) : c \in Categories}}
        /\ classes = label_code_list

C7_Witness ==
    /\ args.cls = "KatherPatchDataset" /\ phase = "ok"
    /\ fs.order = <<2, 1>>
    /\ Len(img_list) = 4
    /\ label_list = <<2, 2, 5, 5>>

\* C8: a list of paths with at least one path that does not exist is refused
\* with the ValueError of the existence check, before any file is decoded.
C8_MissingPathFailsBeforeDecoding ==
    (ListInput /\ IsAllPathList(InItems)
       /\ \E i \in DOMAIN InItems : ~PathExists(fs.files, InItems[i])) =>
        /\ phase = "failed"
        /\ err = ValueError(206)
        /\ decoded = 0

C8_Witness ==
    /\ ListInput /\ IsAllPathList(InItems) /\ Len(InItems) = 2
    /\ PathExists(fs.files, InItems[1]) /\ InItems[1].suffix = ".png"
    /\ ~PathExists(fs.files, InItems[2])
    /\ phase = "failed" /\ err = ValueError(206) /\ decoded = 0

\* C9: with return_labels=True get(i), i in [0, length()), returns the
\* processed sample i paired with the missing sentinel when no labels were
\* given, and with labels[i] when they were.
C9_PairsSampleWithItsLabel ==
    (args.cls = "PatchDataset" /\ IsGetResult /\ return_labels
       /\ InRange0(res.idx)) =>
        /\ res.kind = "pair"
        /\ res.patch = <<Apply(preproc_func, RawSample(res.idx))>>
        /\ IF ~args.labels.given THEN res.label = <<NaN>>
           ELSE /\ res.idx + 1 \in DOMAIN args.labels.vals
                /\ res.label = <<args.labels.vals[res.idx + 1]>>

\* What get(i) must return when `func` was the last argument of
\* set_preproc_func.
ExpectedPatch(func, i) ==
    IF func = "None" THEN RawSample(i) ELSE Apply(func, RawSample(i))

\* C10: get(i) applies the most recently set callable exactly once to the raw
\* sample (decoded iff the dataset holds paths), and returns the raw sample
\* when the last one set was None; set_preproc_func changes no other field.
C10_GetAppliesLastSetPreproc ==
    /\ [](ReturnedSample =>
            res.patch = <<ExpectedPatch(last_func,
                                        PyIndex(DatasetLen, res.idx) - 1)>>)
    /\ [][(phase = "ok" /\ res'.kind = "None") =>
            UNCHANGED <<img_list, label_list, data_is_npy_alike,
                        return_labels>>]_vars

C10_Witness ==
    /\ ReturnedSample /\ InRange0(res.idx)
    /\ ~data_is_npy_alike
    /\ args.preproc_func = "f" /\ last_func = "None"
    /\ res.patch = <<RawSample(res.idx)>>

====
